---- MODULE Spec2Model ----
(***************************************************************************)
(* Apps/users/serializers.py: UserSerializer (permission list, password    *)
(* confirmation, create, update) and ChangePasswordSerializer.             *)
(*                                                                         *)
(* Three specifications share this module, one per part of the file:       *)
(*   SpecPermissions     get_permissions against a changing set of grants  *)
(*   SpecUser            is_valid / save (create, update) of UserSerializer*)
(*   SpecChangePassword  is_valid of ChangePasswordSerializer              *)
(***************************************************************************)
EXTENDS Integers, Sequences, FiniteSets, TLC

VARIABLES
    \* ---- the user whose permissions are serialized ----
    is_superuser,        \* obj.is_superuser
    user_permissions,    \* obj.user_permissions: set of Permission rows
    user_roles,          \* obj.user_roles: role -> "none" | "active" | "inactive"
    role_permissions,    \* role.permissions: role -> set of codes
    permissions,         \* the last value of the `permissions` field, or NotSerialized
    \* ---- UserSerializer request and the users table ----
    users,               \* the users table, a sequence of rows; the id is the index
    request,             \* the serializer in flight: data, instance, partial, actor
    state,               \* "idle" | "valid" | "invalid" | "saved" | "failed"
    validated_data,      \* what is_valid left for save()
    errors,              \* serializer.errors: field -> message
    delegated,           \* the last call handed to the Identity Store
    \* ---- ChangePasswordSerializer request ----
    stored_password,     \* request.user.password (the hash)
    cp_data,             \* the three-field payload
    cp_state,            \* "idle" | "received" | "fields" | "valid" | "invalid"
    cp_attrs,            \* fields that passed their field-level validation
    cp_errors            \* field -> message

permVars == <<is_superuser, user_permissions, user_roles, role_permissions, permissions>>
userVars == <<users, request, state, validated_data, errors, delegated>>
cpVars   == <<stored_password, cp_data, cp_state, cp_attrs, cp_errors>>
vars     == <<permVars, userVars, cpVars>>

----------------------------------------------------------------------------
\* Bounds of the model.
MaxRoles        == 2     \* roles a user can be assigned
MaxUsers        == 2     \* rows the users table can hold

----------------------------------------------------------------------------
\* Dictionaries (Python dicts with string keys) as functions.
EmptyDict == [k \in {} |-> ""]

Pop(d, key) == [k \in (DOMAIN d) \ {key} |-> d[k]]

Put(d, key, value) == [k \in (DOMAIN d) \cup {key} |-> IF k = key THEN value ELSE d[k]]

Range(s) == {s[i] : i \in DOMAIN s}

----------------------------------------------------------------------------
\* Permissions
Codes == {"view_x", "edit_y", "*"}

\* django.contrib.auth Permission rows, read here through `codename` alone.
Permission == [codename : Codes]

Roles == 1..MaxRoles

NotSerialized == <<"<not serialized>">>

\* QuerySet.values_list(field, flat=True): one value per row, in some order.
RECURSIVE values_list(_, _)
values_list(rows, field) ==
    IF rows = {} THEN <<>>
    ELSE LET r == CHOOSE x \in rows : TRUE
         IN  <<r[field]>> \o values_list(rows \ {r}, field)

\* list(a_set): the elements once each, in an order the caller cannot rely on.
list(s) == {l \in [1..Cardinality(s) -> s] : Range(l) = s}

\* obj.user_roles.filter(is_active=True)
filter_is_active(assignments) == {r \in DOMAIN assignments : assignments[r] = "active"}

\* The for loop of get_permissions: user_permissions.update(role codes) per role.
RECURSIVE update_from_roles(_, _, _)
update_from_roles(acc, roles, perms_of) ==
    IF roles = {} THEN acc
    ELSE LET r == CHOOSE x \in roles : TRUE
         IN  update_from_roles(acc \cup perms_of[r], roles \ {r}, perms_of)

\* Mutant: the is_active filter is lost, every assignment contributes.
get_permissions_all_roles(obj) ==
    IF obj.is_superuser THEN {<<"*">>}
    ELSE list(update_from_roles(Range(values_list(obj.user_permissions, "codename")),
                                {r \in DOMAIN obj.user_roles : obj.user_roles[r] # "none"},
                                obj.role_permissions))

\* Mutant: the superuser branch appends the wildcard to the enumerated codes.
get_permissions_enumerated(obj) ==
    LET codes == update_from_roles(Range(values_list(obj.user_permissions, "codename")),
                                   filter_is_active(obj.user_roles),
                                   obj.role_permissions)
    IN  IF obj.is_superuser THEN list(codes \cup {"*"}) ELSE list(codes)

\* UserSerializer.get_permissions: the lists it may return.
get_permissions(obj) ==
    IF obj.is_superuser THEN {<<"*">>}
    ELSE list(update_from_roles(Range(values_list(obj.user_permissions, "codename")),
                                filter_is_active(obj.user_roles),
                                obj.role_permissions))

Obj == [is_superuser     |-> is_superuser,
        user_permissions |-> user_permissions,
        user_roles       |-> user_roles,
        role_permissions |-> role_permissions]

\* serialize: the `permissions` field of the representation.
Serialize ==
    /\ permissions = NotSerialized
    /\ \E l \in get_permissions(Obj) : permissions' = l
    /\ UNCHANGED <<is_superuser, user_permissions, user_roles, role_permissions>>
    /\ UNCHANGED <<userVars, cpVars>>

\* The Identity Store changes between requests; a representation produced
\* before a change is gone (nothing is kept between invocations).
GrantPermission ==
    /\ \E p \in Permission \ user_permissions : user_permissions' = user_permissions \cup {p}
    /\ permissions' = NotSerialized
    /\ UNCHANGED <<is_superuser, user_roles, role_permissions>>
    /\ UNCHANGED <<userVars, cpVars>>

RevokePermission ==
    /\ \E p \in user_permissions : user_permissions' = user_permissions \ {p}
    /\ permissions' = NotSerialized
    /\ UNCHANGED <<is_superuser, user_roles, role_permissions>>
    /\ UNCHANGED <<userVars, cpVars>>

AssignRole ==
    /\ \E r \in Roles :
          /\ user_roles[r] = "none"
          /\ user_roles' = [user_roles EXCEPT ![r] = "active"]
    /\ permissions' = NotSerialized
    /\ UNCHANGED <<is_superuser, user_permissions, role_permissions>>
    /\ UNCHANGED <<userVars, cpVars>>

DeactivateRole ==
    /\ \E r \in Roles :
          /\ user_roles[r] = "active"
          /\ user_roles' = [user_roles EXCEPT ![r] = "inactive"]
    /\ permissions' = NotSerialized
    /\ UNCHANGED <<is_superuser, user_permissions, role_permissions>>
    /\ UNCHANGED <<userVars, cpVars>>

ReactivateRole ==
    /\ \E r \in Roles :
          /\ user_roles[r] = "inactive"
          /\ user_roles' = [user_roles EXCEPT ![r] = "active"]
    /\ permissions' = NotSerialized
    /\ UNCHANGED <<is_superuser, user_permissions, role_permissions>>
    /\ UNCHANGED <<userVars, cpVars>>

SetRolePermissions ==
    /\ \E r \in Roles, c \in Codes :
          role_permissions' =
              [role_permissions EXCEPT ![r] = IF c \in @ THEN @ \ {c} ELSE @ \cup {c}]
    /\ permissions' = NotSerialized
    /\ UNCHANGED <<is_superuser, user_permissions, user_roles>>
    /\ UNCHANGED <<userVars, cpVars>>

SetSuperuser ==
    /\ is_superuser' = ~is_superuser
    /\ permissions' = NotSerialized
    /\ UNCHANGED <<user_permissions, user_roles, role_permissions>>
    /\ UNCHANGED <<userVars, cpVars>>

NextPermissions ==
    \/ Serialize
    \/ GrantPermission
    \/ RevokePermission
    \/ AssignRole
    \/ DeactivateRole
    \/ ReactivateRole
    \/ SetRolePermissions
    \/ SetSuperuser

----------------------------------------------------------------------------
\* UserSerializer: fields

\* Meta.fields
Fields == {"id", "email", "username", "password", "password2", "first_name",
           "last_name", "is_active", "is_staff", "is_superuser", "date_joined",
           "last_login", "two_factor_enabled", "backup_codes", "created_by",
           "permissions"}

\* Mutant: created_by loses read_only=True.
ReadOnlyFieldsButCreatedBy ==
    {"id", "date_joined", "last_login", "two_factor_enabled", "backup_codes", "permissions"}

\* Meta.read_only_fields, the fields declared read_only=True, and the
\* SerializerMethodField.
ReadOnlyFields ==
    {"id", "date_joined", "last_login"}
        \cup {"two_factor_enabled", "backup_codes", "created_by"}
        \cup {"permissions"}

\* The fields declared required=True.
RequiredFields == {"password", "password2"}

\* Columns of the users table: the model fields among Meta.fields.
Columns == Fields \ {"password2", "permissions"}

----------------------------------------------------------------------------
\* Inputs
Passwords == {"Tr0ub4dor&3", "c0rrect-Horse", "password"}

\* What the password-policy checker turns down.
CommonPasswords == {"password"}

Emails == {"a@example.org"}

\* The authenticated requesters.
Actors == {"admin", "staff"}

\* A value a client supplies for a field it may not set.
Forged == "forged"

\* The fields a client may try to set although they are not accepted as input.
ProtectedFields ==
    {"id", "date_joined", "last_login", "two_factor_enabled", "backup_codes",
     "created_by", "permissions"}

\* Payloads that vary the two password fields and one ordinary field.
CredentialPayloads ==
    UNION {[(pw \cup pw2 \cup em) -> Passwords \cup Emails] :
              pw \in SUBSET {"password"}, pw2 \in SUBSET {"password2"}, em \in SUBSET {"email"}}

WellTyped(d) ==
    /\ \A f \in DOMAIN d \cap {"password", "password2"} : d[f] \in Passwords
    /\ \A f \in DOMAIN d \cap {"email"} : d[f] \in Emails

\* Payloads that also carry a value for one, or for all, of the protected fields.
ForgedPayloads ==
    {[f \in DOMAIN d \cup ro |-> IF f \in ro THEN Forged ELSE d[f]] :
        d \in {c \in CredentialPayloads :
                  /\ WellTyped(c)
                  /\ "email" \notin DOMAIN c
                  /\ DOMAIN c \in {{}, {"password", "password2"}}
                  /\ \A f \in DOMAIN c : c[f] = "Tr0ub4dor&3"},
        ro \in {{f} : f \in ProtectedFields} \cup {ProtectedFields}}

Payloads == {d \in CredentialPayloads : WellTyped(d)} \cup ForgedPayloads

----------------------------------------------------------------------------
\* Collaborators

\* django.contrib.auth.password_validation.validate_password: TRUE when the
\* policy accepts the password.
validate_password(password) == password \notin CommonPasswords

\* The credential as the Identity Store keeps it (set_password, create_user).
make_password(raw) == "pbkdf2_sha256$" \o raw

\* A new row before any argument is applied.
NewRow(id) ==
    [c \in Columns |->
        CASE c = "id"                 -> ToString(id)
          [] c = "date_joined"        -> "<now>"
          [] c = "last_login"         -> "<null>"
          [] c = "two_factor_enabled" -> "False"
          [] c = "backup_codes"       -> "[]"
          [] c = "created_by"         -> "<null>"
          [] c \in {"is_staff", "is_superuser"} -> "False"
          [] c = "is_active"          -> "True"
          [] OTHER                    -> ""]

\* User.objects.create_user(**kwargs): the row it inserts; the password
\* argument is hashed, the others are written as given.
create_user(id, kwargs) ==
    [c \in Columns |->
        IF c \in DOMAIN kwargs
        THEN IF c = "password" THEN make_password(kwargs[c]) ELSE kwargs[c]
        ELSE NewRow(id)[c]]

\* instance.set_password(raw)
set_password(instance, raw) == [instance EXCEPT !["password"] = make_password(raw)]

\* ModelSerializer.update: setattr for every attribute.  instance.save()
\* then writes the columns.
setattrs(instance, attrs) ==
    [c \in DOMAIN instance |-> IF c \in DOMAIN attrs THEN attrs[c] ELSE instance[c]]

----------------------------------------------------------------------------
\* UserSerializer: validation

Raise(errs) == [ok |-> FALSE, errors |-> errs, attrs |-> EmptyDict]

Return(attrs) == [ok |-> TRUE, errors |-> EmptyDict, attrs |-> attrs]

\* Field-level pass of Serializer.run_validation: read-only fields are not
\* read from the input, a required field must be present unless the update is
\* partial, and the validators of each field run on its value.
FieldError(field, data, partial) ==
    IF field \notin DOMAIN data
    THEN IF field \in RequiredFields /\ ~partial THEN "This field is required." ELSE ""
    ELSE IF field = "password" /\ ~validate_password(data[field])
         THEN "This password is too common."
         ELSE ""

to_internal_value(data, partial) ==
    LET writable == Fields \ ReadOnlyFields
        failed   == {f \in writable : FieldError(f, data, partial) # ""}
    IN  IF failed # {}
        THEN Raise([f \in failed |-> FieldError(f, data, partial)])
        ELSE Return([f \in writable \cap DOMAIN data |-> data[f]])

\* Mutant: the comparison is dropped.
UserSerializer_validate_unchecked(attrs) == Return(attrs)

\* Mutant: validate strips the confirmation field.
UserSerializer_validate_strips(attrs) ==
    IF "password" \in DOMAIN attrs /\ "password2" \in DOMAIN attrs
    THEN IF attrs["password"] # attrs["password2"]
         THEN Raise([f \in {"password"} |-> "Password fields didn't match."])
         ELSE Return(Pop(attrs, "password2"))
    ELSE Return(attrs)

\* UserSerializer.validate
UserSerializer_validate(attrs) ==
    IF "password" \in DOMAIN attrs /\ "password2" \in DOMAIN attrs
    THEN IF attrs["password"] # attrs["password2"]
         THEN Raise([f \in {"password"} |-> "Password fields didn't match."])
         ELSE Return(attrs)
    ELSE Return(attrs)

\* Serializer.run_validation: validate runs only when no field failed.
run_validation(data, partial) ==
    LET value == to_internal_value(data, partial)
    IN  IF value.ok THEN UserSerializer_validate(value.attrs) ELSE value

----------------------------------------------------------------------------
\* UserSerializer: create and update

\* Mutant: created_by is not stamped.
create_unstamped(validated, user) == Pop(validated, "password2")

\* UserSerializer.create: the keyword arguments handed to create_user.
create(validated, user) == Put(Pop(validated, "password2"), "created_by", user)

\* Mutant: the password stays among the generic attributes.
update_raw(instance, validated) ==
    [attrs |-> Pop(validated, "password2"), instance |-> instance]

\* UserSerializer.update: the attributes left for the generic update, and
\* the instance after set_password.
update(instance, validated) ==
    LET hasPassword == "password" \in DOMAIN validated
        popped      == IF hasPassword THEN Pop(validated, "password") ELSE validated
    IN  [attrs    |-> IF "password2" \in DOMAIN popped THEN Pop(popped, "password2") ELSE popped,
         instance |-> IF hasPassword
                      THEN set_password(instance, validated["password"])
                      ELSE instance]

NoRequest == [data |-> EmptyDict, user |-> "", instance |-> 0, partial |-> FALSE]

NoCall == [call |-> "", kwargs |-> EmptyDict, returned |-> 0]

\* A serializer is built for a request and is_valid() runs.  A request
\* without an instance (a create) is never partial; partial is the PATCH of
\* an existing user.
IsValid ==
    /\ state = "idle"
    /\ \E data \in Payloads, user \in Actors, instance \in 0..Len(users), partial \in BOOLEAN :
          /\ partial => instance # 0
          /\ request' = [data |-> data, user |-> user, instance |-> instance, partial |-> partial]
          /\ LET r == run_validation(data, partial)
             IN  /\ state' = IF r.ok THEN "valid" ELSE "invalid"
                 /\ validated_data' = r.attrs
                 /\ errors' = r.errors
    /\ delegated' = NoCall
    /\ UNCHANGED users
    /\ UNCHANGED <<permVars, cpVars>>

\* serializer.save() without an instance: create.
Create ==
    /\ state = "valid"
    /\ request.instance = 0
    /\ Len(users) < MaxUsers
    /\ LET kwargs == create(validated_data, request.user)
           id     == Len(users) + 1
       IN  IF DOMAIN kwargs \subseteq Columns
           THEN /\ users' = Append(users, create_user(id, kwargs))
                /\ delegated' = [call |-> "create_user", kwargs |-> kwargs, returned |-> id]
                /\ state' = "saved"
           ELSE \* TypeError: unexpected keyword argument
                /\ users' = users
                /\ delegated' = [call |-> "create_user", kwargs |-> kwargs, returned |-> 0]
                /\ state' = "failed"
    /\ UNCHANGED <<request, validated_data, errors>>
    /\ UNCHANGED <<permVars, cpVars>>

\* serializer.save() with an instance: update, whose last step saves the row.
Update ==
    /\ state = "valid"
    /\ request.instance # 0
    /\ LET i == request.instance
           u == update(users[i], validated_data)
       IN  /\ users' = [users EXCEPT ![i] = setattrs(u.instance, u.attrs)]
           /\ delegated' = [call |-> "update", kwargs |-> u.attrs, returned |-> i]
    /\ state' = "saved"
    /\ UNCHANGED <<request, validated_data, errors>>
    /\ UNCHANGED <<permVars, cpVars>>

\* The request ends and its serializer is dropped.
Respond ==
    /\ state \in {"invalid", "saved", "failed"}
    /\ state' = "idle"
    /\ request' = NoRequest
    /\ validated_data' = EmptyDict
    /\ errors' = EmptyDict
    /\ delegated' = NoCall
    /\ UNCHANGED users
    /\ UNCHANGED <<permVars, cpVars>>

NextUser ==
    \/ IsValid
    \/ Create
    \/ Update
    \/ Respond

----------------------------------------------------------------------------
\* ChangePasswordSerializer

\* current_password, new_password, confirm_password: all required=True.
ChangePasswordFields == {"current_password", "new_password", "confirm_password"}

ChangePasswordPayloads ==
    UNION {[fs -> Passwords] : fs \in SUBSET ChangePasswordFields}

\* user.check_password(raw)
check_password(stored, raw) == make_password(raw) = stored

\* Mutant: the result of check_password is ignored.
validate_current_password_unchecked(stored, value) == ""

\* ChangePasswordSerializer.validate_current_password: the message it raises,
\* or "" when it returns the value.
validate_current_password(stored, value) ==
    IF ~check_password(stored, value) THEN "Current password is incorrect." ELSE ""

\* Field-level pass: a missing field is an error, then the validators of
\* the field, then its validate_<field> method.
ChangePasswordFieldError(field, data, stored) ==
    IF field \notin DOMAIN data THEN "This field is required."
    ELSE IF field = "new_password" /\ ~validate_password(data[field])
         THEN "This password is too common."
    ELSE IF field = "current_password"
         THEN validate_current_password(stored, data[field])
    ELSE ""

\* Mutant: the comparison is dropped.
ChangePasswordSerializer_validate_unchecked(attrs) == Return(attrs)

\* ChangePasswordSerializer.validate
ChangePasswordSerializer_validate(attrs) ==
    IF attrs["new_password"] # attrs["confirm_password"]
    THEN Raise([f \in {"confirm_password"} |-> "New password fields didn't match."])
    ELSE Return(attrs)

\* A password-change request arrives for a user whose credential is stored.
ChangePasswordRequest ==
    /\ cp_state = "idle"
    /\ \E data \in ChangePasswordPayloads, raw \in Passwords \ CommonPasswords :
          /\ cp_data' = data
          /\ stored_password' = make_password(raw)
    /\ cp_state' = "received"
    /\ UNCHANGED <<cp_attrs, cp_errors>>
    /\ UNCHANGED <<permVars, userVars>>

\* is_valid(), first half: every field is validated and the errors collected.
ChangePasswordFieldsPass ==
    /\ cp_state = "received"
    /\ LET failed == {f \in ChangePasswordFields :
                         ChangePasswordFieldError(f, cp_data, stored_password) # ""}
       IN  /\ cp_errors' = [f \in failed |-> ChangePasswordFieldError(f, cp_data, stored_password)]
           /\ cp_attrs' = [f \in ChangePasswordFields \ failed |-> cp_data[f]]
    /\ cp_state' = "fields"
    /\ UNCHANGED <<stored_password, cp_data>>
    /\ UNCHANGED <<permVars, userVars>>

\* is_valid(), a field failed: the collected errors are raised, validate is
\* not called.
ChangePasswordFieldsRaise ==
    /\ cp_state = "fields"
    /\ cp_errors # EmptyDict
    /\ cp_state' = "invalid"
    /\ cp_attrs' = EmptyDict
    /\ UNCHANGED <<stored_password, cp_data, cp_errors>>
    /\ UNCHANGED <<permVars, userVars>>

\* is_valid(), no field failed: validate runs on the attributes.
ChangePasswordValidate ==
    /\ cp_state = "fields"
    /\ cp_errors = EmptyDict
    /\ LET r == ChangePasswordSerializer_validate(cp_attrs)
       IN  /\ cp_state' = IF r.ok THEN "valid" ELSE "invalid"
           /\ cp_attrs' = r.attrs
           /\ cp_errors' = r.errors
    /\ UNCHANGED <<stored_password, cp_data>>
    /\ UNCHANGED <<permVars, userVars>>

\* The request ends and its serializer is dropped.
ChangePasswordRespond ==
    /\ cp_state \in {"valid", "invalid"}
    /\ cp_state' = "idle"
    /\ stored_password' = ""
    /\ cp_data' = EmptyDict
    /\ cp_attrs' = EmptyDict
    /\ cp_errors' = EmptyDict
    /\ UNCHANGED <<permVars, userVars>>

NextChangePassword ==
    \/ ChangePasswordRequest
    \/ ChangePasswordFieldsPass
    \/ ChangePasswordFieldsRaise
    \/ ChangePasswordValidate
    \/ ChangePasswordRespond

----------------------------------------------------------------------------
\* Every specification starts with no grants, an empty users table and no
\* request in flight.
Init ==
    /\ is_superuser = FALSE
    /\ user_permissions = {}
    /\ user_roles = [r \in Roles |-> "none"]
    /\ role_permissions = [r \in Roles |-> {}]
    /\ permissions = NotSerialized
    /\ users = <<>>
    /\ request = NoRequest
    /\ state = "idle"
    /\ validated_data = EmptyDict
    /\ errors = EmptyDict
    /\ delegated = NoCall
    /\ stored_password = ""
    /\ cp_data = EmptyDict
    /\ cp_state = "idle"
    /\ cp_attrs = EmptyDict
    /\ cp_errors = EmptyDict

SpecPermissions == Init /\ [][NextPermissions]_vars

SpecUser == Init /\ [][NextUser]_vars

SpecChangePassword == Init /\ [][NextChangePassword]_vars

----------------------------------------------------------------------------
\* Claims about get_permissions (SpecPermissions)

DirectCodes == {p.codename : p \in user_permissions}

ActiveRoleCodes == UNION {role_permissions[r] : r \in {x \in Roles : user_roles[x] = "active"}}

InactiveOnlyCodes ==
    UNION {role_permissions[r] : r \in {x \in Roles : user_roles[x] = "inactive"}}
        \ (DirectCodes \cup ActiveRoleCodes)

\* C1: for a non-superuser the serialized permissions hold exactly the union
\* of the direct codes and the codes of the active role assignments, each
\* code once; a code granted only through an inactive assignment is absent.
C1_ExactUnion ==
    (permissions # NotSerialized /\ ~is_superuser) =>
        /\ Range(permissions) = DirectCodes \cup ActiveRoleCodes
        /\ Len(permissions) = Cardinality(Range(permissions))
        /\ Range(permissions) \cap InactiveOnlyCodes = {}

\* A deactivated assignment whose code is gone from the list, next to a
\* code that is granted twice (directly and through an active role).
C1_Witness ==
    /\ permissions # NotSerialized
    /\ ~is_superuser
    /\ InactiveOnlyCodes # {}
    /\ DirectCodes \cap ActiveRoleCodes # {}
    /\ Len(permissions) = 2

\* C2: for a superuser the serialized permissions are exactly ["*"], whatever
\* is granted; for a non-superuser a "*" in the list is a granted code, not
\* the superuser sentinel.
C2_SuperuserWildcard ==
    permissions # NotSerialized =>
        /\ is_superuser => permissions = <<"*">>
        /\ (~is_superuser /\ "*" \in Range(permissions)) =>
               "*" \in DirectCodes \cup ActiveRoleCodes

C2_Witness ==
    /\ is_superuser
    /\ permissions = <<"*">>
    /\ "view_x" \in DirectCodes
    /\ "edit_y" \in ActiveRoleCodes
    /\ InactiveOnlyCodes # {}

----------------------------------------------------------------------------
\* Claims about UserSerializer (SpecUser)

Validated == state \in {"valid", "invalid", "saved", "failed"}

BothSupplied == {"password", "password2"} \subseteq DOMAIN request.data

Mismatch == BothSupplied /\ request.data["password"] # request.data["password2"]

\* C3: an input whose password and password2 differ fails validation with an
\* error on the field password, and create and update are not reached.
C3_MismatchRejected ==
    (Validated /\ Mismatch) =>
        /\ state = "invalid"
        /\ "password" \in DOMAIN errors
        /\ delegated = NoCall

C3_Witness ==
    /\ state = "invalid"
    /\ Mismatch
    /\ validate_password(request.data["password"])
    /\ errors = [f \in {"password"} |-> "Password fields didn't match."]

\* C4: an input whose password equals password2 and passes the policy is
\* valid, and the validated attributes are the writable input fields with
\* their values, nothing added, removed or altered.
C4_MatchAccepted ==
    (Validated /\ BothSupplied /\ ~Mismatch /\ request.data["password"] \notin CommonPasswords) =>
        /\ state # "invalid"
        /\ errors = EmptyDict
        /\ DOMAIN validated_data = DOMAIN request.data \ ProtectedFields
        /\ \A f \in DOMAIN validated_data : validated_data[f] = request.data[f]

C4_Witness ==
    /\ state = "valid"
    /\ BothSupplied
    /\ ~Mismatch
    /\ "email" \in DOMAIN validated_data
    /\ "password2" \in DOMAIN validated_data

UpdateStep == state = "valid" /\ state' = "saved" /\ request.instance # 0

\* C5: update hands neither password nor password2 to the generic update; a
\* supplied password is stored as set_password leaves it, never as the
\* plaintext; without a password the stored credential is unchanged; the
\* row is saved when update returns.
C5_UpdateCredential ==
    [][UpdateStep =>
          LET i == request.instance
          IN  /\ delegated'.call = "update"
              /\ DOMAIN delegated'.kwargs = DOMAIN validated_data \ {"password", "password2"}
              /\ \A f \in DOMAIN delegated'.kwargs \cap Columns :
                     users'[i][f] = validated_data[f]
              /\ users'[i]["password"] \notin Passwords
              /\ IF "password" \in DOMAIN validated_data
                 THEN users'[i]["password"] = "pbkdf2_sha256$" \o validated_data["password"]
                 ELSE users'[i]["password"] = users[i]["password"]]_vars

C5_Witness ==
    /\ state = "saved"
    /\ request.instance # 0
    /\ {"password", "password2", "email"} \subseteq DOMAIN validated_data
    /\ delegated.kwargs = [f \in {"email"} |-> validated_data["email"]]
    /\ users[request.instance]["password"] = "pbkdf2_sha256$" \o validated_data["password"]

\* C6: create drops password2, stamps created_by with the requester, hands
\* every other validated attribute unchanged to create_user, which hashes
\* the password, and returns the user the Identity Store constructed.
C6_Create ==
    (state \in {"saved", "failed"} /\ request.instance = 0) =>
        /\ state = "saved"
        /\ delegated.call = "create_user"
        /\ DOMAIN delegated.kwargs = (DOMAIN validated_data \ {"password2"}) \cup {"created_by"}
        /\ \A f \in DOMAIN validated_data \ {"password2"} : delegated.kwargs[f] = validated_data[f]
        /\ delegated.kwargs["created_by"] = request.user
        /\ delegated.returned = Len(users)
        /\ users[Len(users)]["created_by"] = request.user
        /\ users[Len(users)]["password"] = "pbkdf2_sha256$" \o validated_data["password"]
        /\ \A f \in DOMAIN validated_data \cap (Columns \ {"password"}) :
               users[Len(users)][f] = validated_data[f]

C6_Witness ==
    /\ state = "saved"
    /\ request.instance = 0
    /\ request.user = "staff"
    /\ "created_by" \in DOMAIN request.data
    /\ users[Len(users)]["created_by"] = "staff"

\* C9: no value supplied for id, date_joined, last_login, two_factor_enabled,
\* backup_codes, created_by or permissions reaches a stored user or a call to
\* the Identity Store; created_by is set at create to the requester and no
\* update changes it.
C9_ReadOnlyFrame ==
    [][/\ \A u \in DOMAIN users' : \A f \in ProtectedFields \cap Columns : users'[u][f] # Forged
       /\ \A f \in ProtectedFields \cap DOMAIN delegated'.kwargs :
              f = "created_by" /\ delegated'.call = "create_user"
       /\ ProtectedFields \cap DOMAIN validated_data' = {}
       /\ \A u \in DOMAIN users : users'[u]["created_by"] = users[u]["created_by"]
       /\ \A u \in DOMAIN users' \ DOMAIN users : users'[u]["created_by"] = request.user]_vars

C9_Witness ==
    /\ state = "saved"
    /\ request.instance # 0
    /\ ProtectedFields \subseteq DOMAIN request.data
    /\ users[request.instance]["created_by"] = "staff"
    /\ request.user = "admin"

\* C10 as stated: an update request carrying both fields with different
\* values has the new password applied and succeeds.
C10_Original ==
    (state \in {"invalid", "saved"} /\ request.instance # 0 /\ Mismatch
        /\ request.data["password"] \notin CommonPasswords) =>
        /\ state = "saved"
        /\ users[request.instance]["password"] = "pbkdf2_sha256$" \o request.data["password"]

\* C10 amended: update does not compare the two fields itself, but validate
\* runs before it on every request; an update request carrying both fields
\* with different values is rejected and leaves the users table as it was,
\* and update only ever drops a password2 that equals the password.
C10_UpdateNeverSeesMismatch ==
    [][/\ (request'.instance # 0 /\ {"password", "password2"} \subseteq DOMAIN request'.data
              /\ request'.data["password"] # request'.data["password2"]) =>
             (state' = "invalid" /\ users' = users)
       /\ (UpdateStep /\ {"password", "password2"} \subseteq DOMAIN validated_data) =>
             validated_data["password"] = validated_data["password2"]]_vars

C10_Witness ==
    /\ state = "invalid"
    /\ request.instance # 0
    /\ request.partial
    /\ Mismatch
    /\ request.data["password"] \notin CommonPasswords

----------------------------------------------------------------------------
\* Claims about ChangePasswordSerializer (SpecChangePassword)

Checked == cp_state \in {"fields", "valid", "invalid"}

Supplied(f) == f \in DOMAIN cp_data

CurrentMatches == stored_password = "pbkdf2_sha256$" \o cp_data["current_password"]

\* C7: a current_password that does not match the stored credential fails
\* with "Current password is incorrect." on current_password, whatever the
\* other two fields hold; one that matches passes unchanged, with no error
\* on that field.
C7_CurrentPassword ==
    (Checked /\ Supplied("current_password")) =>
        IF CurrentMatches
        THEN /\ "current_password" \notin DOMAIN cp_errors
             /\ cp_state \in {"fields", "valid"} =>
                    cp_attrs["current_password"] = cp_data["current_password"]
        ELSE /\ "current_password" \in DOMAIN cp_errors
             /\ cp_errors["current_password"] = "Current password is incorrect."
             /\ cp_state # "valid"

C7_Witness ==
    /\ cp_state = "invalid"
    /\ DOMAIN cp_data = ChangePasswordFields
    /\ ~CurrentMatches
    /\ cp_data["new_password"] = cp_data["confirm_password"]
    /\ cp_data["new_password"] \notin CommonPasswords
    /\ cp_errors = [f \in {"current_password"} |-> "Current password is incorrect."]

NewMismatch ==
    /\ Supplied("new_password")
    /\ Supplied("confirm_password")
    /\ cp_data["new_password"] # cp_data["confirm_password"]

\* C8 as stated: every request whose new_password differs from
\* confirm_password fails on confirm_password with the mismatch message.
C8_Original ==
    (cp_state \in {"valid", "invalid"} /\ NewMismatch) =>
        /\ cp_state = "invalid"
        /\ "confirm_password" \in DOMAIN cp_errors
        /\ cp_errors["confirm_password"] = "New password fields didn't match."

FieldsPass ==
    /\ Supplied("current_password")
    /\ CurrentMatches
    /\ cp_data["new_password"] \notin CommonPasswords

\* C8 amended: a request whose new_password differs from confirm_password
\* always fails; the failure is the mismatch message on confirm_password when
\* every field passes its own checks, and otherwise only the errors of the
\* failing fields are reported, none of them on confirm_password.
C8_MismatchAfterFields ==
    (cp_state \in {"valid", "invalid"} /\ NewMismatch) =>
        /\ cp_state = "invalid"
        /\ IF FieldsPass
           THEN cp_errors = [f \in {"confirm_password"} |-> "New password fields didn't match."]
           ELSE /\ cp_errors # EmptyDict
                /\ "confirm_password" \notin DOMAIN cp_errors

C8_Witness ==
    /\ cp_state = "invalid"
    /\ NewMismatch
    /\ FieldsPass
    /\ cp_errors = [f \in {"confirm_password"} |-> "New password fields didn't match."]

====
